---------------------------- MODULE Spec2Model ----------------------------
(***************************************************************************)
(* Token (reference/XML/token.inl): a non-owning text span (m_buffer,      *)
(* m_length) tagged with a type code (m_type).                             *)
(*                                                                         *)
(* A Token object is modelled as the storage of its three members.  A      *)
(* cString is an offset into the backing buffer, so that two Tokens can    *)
(* point into the same characters.                                         *)
(*                                                                         *)
(* Four specifications share the variables:                                *)
(*   Spec         one caller issues whole calls on two constructed Tokens  *)
(*   SpecCtor     the two constructors, followed by setter calls           *)
(*   SpecReaders  several threads read one Token nobody mutates            *)
(*   SpecRace     threads call SetText / GetText on one Token with no      *)
(*                synchronisation, one member access per step              *)
(***************************************************************************)
EXTENDS Integers, Sequences, FiniteSets, TLC

\* Largest offset into the backing buffer used as a cString.
MaxStart == 1
\* Largest uInt length supplied.
MaxLength == 2
\* Largest uInt2 type code supplied.
MaxType == 1

Starts == 0 .. MaxStart
Lengths == 0 .. MaxLength
Types == 0 .. MaxType

\* The Token objects and the threads that call them.
Tokens == {"a", "b"}
Threads == {"t1", "t2", "t3"}
Main == "t1"

\* The characters the spans point into: the first characters of "<tag>".
Buffer == SubSeq(<<"<", "t", "a", "g", ">">>, 1, MaxStart + 1)

VARIABLES
    tok,      \* tok[t]: the members m_buffer, m_length, m_type of Token t
    backing,  \* the backing character buffer the spans point into
    ret,      \* ret[th]: the value the last getter call returned to thread th
    lastOp,   \* history: the last whole call made under Spec
    hist,     \* history: how each Token was constructed and set under SpecCtor
    pc,       \* pc[th]: the call thread th is in the middle of (SpecReaders, SpecRace)
    overlapped \* history: a SetText call overlapped another call on the same Token

vars == <<tok, backing, ret, lastOp, hist, pc, overlapped>>

-----------------------------------------------------------------------------
(* The values *)

\* The storage of a Token: any content of the three members.
TokenValues == [m_buffer : Starts, m_length : Lengths, m_type : Types]

\* Text (cString, uInt): a span value, a copy of the pair it is built from.
Text(buffer, length) == [start |-> buffer, length |-> length]

NoText == Text(0, 0)
NoRet == [kind |-> "none", from |-> "none", text |-> NoText, type |-> 0]
Idle == [op |-> "idle", tok |-> "none", first |-> "none", val |-> 0]
NoOp == [op |-> "none", tok |-> "none"]
Unset == 0 - 1
NoHist == [origin |-> "none", calls |-> <<>>, buffer |-> Unset, length |-> Unset, type |-> Unset]

\* The span lies within the backing buffer.
InBounds(start, length) == start + length <= Len(backing)

-----------------------------------------------------------------------------
(* The methods of Token, as functions of the object's storage `self` *)

\* Token::Token (void): no initialiser and an empty body; the members keep
\* whatever the storage held.
Token_void(self) == self

\* Mutant: the initialiser list gives m_length the type argument.
Token_LengthFromType(buffer, length, type) ==
    [m_buffer |-> buffer, m_length |-> type, m_type |-> type]

\* Token::Token (cString, uInt, uInt2): the member initialiser list.
Token(buffer, length, type) ==
    [m_buffer |-> buffer, m_length |-> length, m_type |-> type]

\* m_buffer = buffer;
SetText_m_buffer(self, buffer) == [self EXCEPT !.m_buffer = buffer]

\* Mutant: the parameter is never stored (m_length = m_length).
SetText_m_length_Self(self, length) == self

\* m_length = length;
SetText_m_length(self, length) == [self EXCEPT !.m_length = length]

\* Mutant: the second assignment is missing.
SetText_DropLength(self, buffer, length) == SetText_m_buffer(self, buffer)

\* Token::SetText: the two assignments in order.
SetText(self, buffer, length) ==
    SetText_m_length(SetText_m_buffer(self, buffer), length)

\* Token::GetText: return Text (m_buffer, m_length);
GetText(self) == Text(self.m_buffer, self.m_length)

\* Mutant: the value is assigned to the wrong member.
SetType_WrongMember(self, type) == [self EXCEPT !.m_length = type]

\* Token::SetType: m_type = type;
SetType(self, type) == [self EXCEPT !.m_type = type]

\* Token::GetType: return m_type;
GetType(self) == self.m_type

\* What a caller can observe of a Token.
Observable(self) == <<GetText(self), GetType(self)>>

-----------------------------------------------------------------------------
(* Whole calls: one call is one step *)

\* Mutant: the spans GetText returned refer to the Token's members, so that
\* SetText rewrites them.
CallSetText_Aliased(t, buffer, length) ==
    /\ tok' = [tok EXCEPT ![t] = SetText(tok[t], buffer, length)]
    /\ ret' = [th \in Threads |->
                IF ret[th].kind = "Text" /\ ret[th].from = t
                THEN [ret[th] EXCEPT !.text = Text(buffer, length)]
                ELSE ret[th]]
    /\ UNCHANGED <<backing, pc, overlapped>>

\* t.SetText (buffer, length)
CallSetText(t, buffer, length) ==
    /\ tok' = [tok EXCEPT ![t] = SetText(tok[t], buffer, length)]
    /\ UNCHANGED <<backing, ret, pc, overlapped>>

\* Mutant: m_type is shared by all Tokens (a static member).
CallSetType_Shared(t, type) ==
    /\ tok' = [u \in Tokens |-> SetType(tok[u], type)]
    /\ UNCHANGED <<backing, ret, pc, overlapped>>

\* t.SetType (type)
CallSetType(t, type) ==
    /\ tok' = [tok EXCEPT ![t] = SetType(tok[t], type)]
    /\ UNCHANGED <<backing, ret, pc, overlapped>>

\* th: x = t.GetText ()
CallGetText(th, t) ==
    /\ ret' = [ret EXCEPT ![th] =
                [kind |-> "Text", from |-> t, text |-> GetText(tok[t]), type |-> 0]]
    /\ UNCHANGED <<tok, backing, pc, overlapped>>

\* th: x = t.GetType ()
CallGetType(th, t) ==
    /\ ret' = [ret EXCEPT ![th] =
                [kind |-> "uInt2", from |-> t, text |-> NoText, type |-> GetType(tok[t])]]
    /\ UNCHANGED <<tok, backing, pc, overlapped>>

-----------------------------------------------------------------------------
(* Spec: one caller, two constructed Tokens, whole calls *)

\* The state after construction: each Token was built by one of the two
\* constructors, so its members hold any values.
Init ==
    /\ tok \in [Tokens -> TokenValues]
    /\ backing = Buffer
    /\ ret = [th \in Threads |-> NoRet]
    /\ lastOp = NoOp
    /\ hist = [t \in Tokens |-> NoHist]
    /\ pc = [th \in Threads |-> Idle]
    /\ overlapped = FALSE

\* Mutant: a span that reaches past the end of the buffer is refused.
DoSetText_Checked(t, buffer, length) ==
    /\ InBounds(buffer, length)
    /\ CallSetText(t, buffer, length)
    /\ lastOp' = [op |-> "SetText", tok |-> t]
    /\ UNCHANGED hist

DoSetText(t, buffer, length) ==
    /\ CallSetText(t, buffer, length)
    /\ lastOp' = [op |-> "SetText", tok |-> t]
    /\ UNCHANGED hist

DoSetType(t, type) ==
    /\ CallSetType(t, type)
    /\ lastOp' = [op |-> "SetType", tok |-> t]
    /\ UNCHANGED hist

DoGetText(t) ==
    /\ CallGetText(Main, t)
    /\ lastOp' = [op |-> "GetText", tok |-> t]
    /\ UNCHANGED hist

DoGetType(t) ==
    /\ CallGetType(Main, t)
    /\ lastOp' = [op |-> "GetType", tok |-> t]
    /\ UNCHANGED hist

Next ==
    \/ \E t \in Tokens, buffer \in Starts, length \in Lengths : DoSetText(t, buffer, length)
    \/ \E t \in Tokens, type \in Types : DoSetType(t, type)
    \/ \E t \in Tokens : DoGetText(t)
    \/ \E t \in Tokens : DoGetType(t)

Spec == Init /\ [][Next]_vars

-----------------------------------------------------------------------------
(* Properties of whole calls, under Spec *)

\* The step is a SetText or a SetType call on Token t.
SetterCall(t) ==
    \/ \E buffer \in Starts, length \in Lengths : CallSetText(t, buffer, length)
    \/ \E type \in Types : CallSetType(t, type)

\* Two spans share at least one character of the backing buffer.
Overlaps(x, y) ==
    /\ x.length > 0
    /\ y.length > 0
    /\ x.start < y.start + y.length
    /\ y.start < x.start + x.length

\* C2: after t.SetText(start2, length2), t.GetText() is exactly
\* (start2, length2) and t.GetType() is what it was before the call.
C2_SetTextSetsSpanKeepsType ==
    [][\A t \in Tokens, buffer \in Starts, length \in Lengths :
          CallSetText(t, buffer, length) =>
              /\ GetText(tok'[t]) = Text(buffer, length)
              /\ GetType(tok'[t]) = GetType(tok[t])]_vars

\* A SetText call has just been made on a Token that now holds the largest
\* span and a type other than zero.
C2_Witness ==
    /\ lastOp.op = "SetText"
    /\ GetText(tok[lastOp.tok]) = Text(MaxStart, MaxLength)
    /\ GetType(tok[lastOp.tok]) = MaxType

\* C3: after t.SetType(type2), t.GetType() is type2 and t.GetText() is the
\* span it was before the call.
C3_SetTypeSetsTypeKeepsSpan ==
    [][\A t \in Tokens, type \in Types :
          CallSetType(t, type) =>
              /\ GetType(tok'[t]) = type
              /\ GetText(tok'[t]) = GetText(tok[t])]_vars

\* A SetType call has just been made on a Token that now holds the largest
\* type code and a non-empty span.
C3_Witness ==
    /\ lastOp.op = "SetType"
    /\ GetType(tok[lastOp.tok]) = MaxType
    /\ GetText(tok[lastOp.tok]) = Text(MaxStart, MaxLength)

\* C6: a span returned by GetText is a value: no later SetText or SetType
\* call changes it, and a new GetText call returns the Token's current span.
C6_ReturnedSpanIsSnapshot ==
    [][/\ \A t \in Tokens : SetterCall(t) => ret' = ret
       /\ \A t \in Tokens :
            CallGetText(Main, t) => ret'[Main].text = GetText(tok[t])]_vars

\* The caller holds a span of a Token whose span a later SetText replaced.
C6_Witness ==
    /\ ret[Main].kind = "Text"
    /\ lastOp.op = "SetText"
    /\ lastOp.tok = ret[Main].from
    /\ ret[Main].text # GetText(tok[lastOp.tok])

\* C7: a SetText or SetType call on one Token changes neither what another
\* Token returns, overlapping spans included, nor the backing buffer.
C7_TokensDoNotInterfere ==
    [][\A t \in Tokens :
          SetterCall(t) =>
              /\ \A u \in Tokens \ {t} : Observable(tok'[u]) = Observable(tok[u])
              /\ backing' = backing]_vars

\* Token a has just been given a span that overlaps the different span of
\* Token b.
C7_Witness ==
    /\ lastOp = [op |-> "SetText", tok |-> "a"]
    /\ Overlaps(GetText(tok["a"]), GetText(tok["b"]))
    /\ GetText(tok["a"]) # GetText(tok["b"])
    /\ InBounds(tok["a"].m_buffer, tok["a"].m_length)
    /\ InBounds(tok["b"].m_buffer, tok["b"].m_length)

\* C10: no call is refused and no argument is validated: every span, the
\* empty ones and the ones past the end of the buffer included, and every
\* type code is accepted and stored as given.
C10_NoValidation ==
    /\ \A t \in Tokens, buffer \in Starts, length \in Lengths :
          /\ ENABLED DoSetText(t, buffer, length)
          /\ SetText(tok[t], buffer, length) =
                [tok[t] EXCEPT !.m_buffer = buffer, !.m_length = length]
    /\ \A t \in Tokens, type \in Types :
          /\ ENABLED DoSetType(t, type)
          /\ SetType(tok[t], type) = [tok[t] EXCEPT !.m_type = type]
    /\ \A buffer \in Starts, length \in Lengths, type \in Types :
          /\ Token(buffer, length, type).m_buffer = buffer
          /\ Token(buffer, length, type).m_length = length
          /\ Token(buffer, length, type).m_type = type

\* One Token has just been given a span reaching past the end of the buffer,
\* the other holds an empty span and the largest type code.
C10_Witness ==
    /\ lastOp.op = "SetText"
    /\ ~InBounds(tok[lastOp.tok].m_buffer, tok[lastOp.tok].m_length)
    /\ \E u \in Tokens \ {lastOp.tok} :
          /\ tok[u].m_length = 0
          /\ tok[u].m_type = MaxType

-----------------------------------------------------------------------------
(* SpecCtor: construction, then setter calls *)

\* Before construction the storage of each Token holds any values.
InitCtor ==
    /\ tok \in [Tokens -> TokenValues]
    /\ backing = Buffer
    /\ ret = [th \in Threads |-> NoRet]
    /\ lastOp = NoOp
    /\ hist = [t \in Tokens |-> NoHist]
    /\ pc = [th \in Threads |-> Idle]
    /\ overlapped = FALSE

\* The setters called on a Token so far, in the order of their first calls.
Called(calls, name) ==
    IF \E i \in 1 .. Len(calls) : calls[i] = name THEN calls ELSE Append(calls, name)

\* Token t;
NewToken_void(t) ==
    /\ hist[t].origin = "none"
    /\ tok' = [tok EXCEPT ![t] = Token_void(tok[t])]
    /\ hist' = [hist EXCEPT ![t] = [NoHist EXCEPT !.origin = "Token()", !.calls = <<>>]]
    /\ UNCHANGED <<backing, ret, lastOp, pc, overlapped>>

\* Token t (buffer, length, type);
NewToken(t, buffer, length, type) ==
    /\ hist[t].origin = "none"
    /\ tok' = [tok EXCEPT ![t] = Token(buffer, length, type)]
    /\ hist' = [hist EXCEPT ![t] =
                 [origin |-> "Token(b,l,t)", calls |-> <<>>,
                  buffer |-> buffer, length |-> length, type |-> type]]
    /\ UNCHANGED <<backing, ret, lastOp, pc, overlapped>>

\* t.SetText (buffer, length) on a constructed Token; the history keeps the
\* values supplied.
CtorSetText(t, buffer, length) ==
    /\ hist[t].origin # "none"
    /\ CallSetText(t, buffer, length)
    /\ hist' = [hist EXCEPT ![t].calls = Called(@, "SetText"),
                            ![t].buffer = buffer,
                            ![t].length = length]
    /\ UNCHANGED lastOp

\* t.SetType (type) on a constructed Token.
CtorSetType(t, type) ==
    /\ hist[t].origin # "none"
    /\ CallSetType(t, type)
    /\ hist' = [hist EXCEPT ![t].calls = Called(@, "SetType"), ![t].type = type]
    /\ UNCHANGED lastOp

NextCtor ==
    \/ \E t \in Tokens : NewToken_void(t)
    \/ \E t \in Tokens, buffer \in Starts, length \in Lengths, type \in Types :
          NewToken(t, buffer, length, type)
    \/ \E t \in Tokens, buffer \in Starts, length \in Lengths : CtorSetText(t, buffer, length)
    \/ \E t \in Tokens, type \in Types : CtorSetType(t, type)

SpecCtor == InitCtor /\ [][NextCtor]_vars

\* The Token was constructed and no setter has been called on it.
Fresh(t, origin) == hist[t].origin = origin /\ hist[t].calls = <<>>

\* The values supplied to the Token so far, by its constructor or its setters.
Supplied(t) == <<hist[t].buffer, hist[t].length, hist[t].type>>

\* C1: a Token built by Token(start, length, type) reports the span
\* (start, length) and the type, as long as no setter has been called.
C1_ConstructorSetsAll ==
    \A t \in Tokens :
        Fresh(t, "Token(b,l,t)") =>
            /\ GetText(tok[t]) = Text(hist[t].buffer, hist[t].length)
            /\ GetType(tok[t]) = hist[t].type

\* Token a has been built from the largest triple and no setter has been
\* called on it; Token b, default-constructed, shows what its storage held.
C1_Witness ==
    /\ Fresh("a", "Token(b,l,t)")
    /\ Supplied("a") = <<MaxStart, MaxLength, MaxType>>
    /\ Fresh("b", "Token()")
    /\ tok["b"] = Token(0, 0, 0)

\* C4: any two default-constructed Tokens report one and the same span and
\* type.
C4_DefaultIsDeterministic ==
    \A t, u \in Tokens :
        Fresh(t, "Token()") /\ Fresh(u, "Token()") =>
            Observable(tok[t]) = Observable(tok[u])

\* C5: Token(start, length, type) gives the Token the state that Token()
\* followed by SetText(start, length) and SetType(type), in either order,
\* gives it; and the construction is one step, after which the Token holds
\* all three values.
C5_Equivalent ==
    \A t, u \in Tokens :
        /\ Fresh(t, "Token(b,l,t)")
        /\ hist[u].origin = "Token()"
        /\ Len(hist[u].calls) = 2
        /\ Supplied(u) = Supplied(t)
        => Observable(tok[u]) = Observable(tok[t])

C5_OneStep ==
    \A t \in Tokens :
        hist[t].origin = "none" /\ hist'[t].origin = "Token(b,l,t)" =>
            /\ GetText(tok'[t]) = Text(hist'[t].buffer, hist'[t].length)
            /\ GetType(tok'[t]) = hist'[t].type

C5_CtorEquivalentToDefaultThenSet == [] C5_Equivalent /\ [][C5_OneStep]_vars

\* Token a was built by the three-argument constructor, Token b by the
\* default constructor followed by SetType and then SetText, with the same
\* three values.
C5_Witness ==
    /\ Fresh("a", "Token(b,l,t)")
    /\ hist["b"].origin = "Token()"
    /\ hist["b"].calls = <<"SetType", "SetText">>
    /\ Supplied("b") = Supplied("a")
    /\ Supplied("a") = <<MaxStart, MaxLength, MaxType>>

-----------------------------------------------------------------------------
(* Calls without synchronisation: one member access is one step *)

\* The Token the threads share.
Shared == "a"
Members == {"m_buffer", "m_length"}

\* The state after the shared Token was constructed from (buffer, length, type).
InitShared(buffer, length, type) ==
    /\ tok = [t \in Tokens |-> IF t = Shared THEN Token(buffer, length, type)
                                             ELSE Token(0, 0, 0)]
    /\ backing = Buffer
    /\ ret = [th \in Threads |-> NoRet]
    /\ lastOp = NoOp
    /\ hist = [t \in Tokens |-> NoHist]
    /\ pc = [th \in Threads |-> Idle]
    /\ overlapped = FALSE

\* Some other thread is in the middle of a SetText call on t.
SetTextInProgress(th, t) ==
    \E o \in Threads \ {th} : pc[o].op = "SetText" /\ pc[o].tok = t

\* Some other thread is in the middle of a call on t.
CallInProgress(th, t) ==
    \E o \in Threads \ {th} : pc[o].op # "idle" /\ pc[o].tok = t

\* th: t.GetText (), the first of the two member reads.  The two arguments of
\* Text (m_buffer, m_length) are evaluated in either order.
GetTextFirst(th, t, m) ==
    /\ pc[th].op = "idle"
    /\ pc' = [pc EXCEPT ![th] = [op |-> "GetText", tok |-> t, first |-> m, val |-> tok[t][m]]]
    /\ overlapped' = (overlapped \/ SetTextInProgress(th, t))
    /\ UNCHANGED <<tok, backing, ret, lastOp, hist>>

\* Mutant: reading the span takes it out of the Token (its length is reset).
GetTextSecond_Consuming(th) ==
    /\ pc[th].op = "GetText"
    /\ LET t == pc[th].tok
           seen == [tok[t] EXCEPT ![pc[th].first] = pc[th].val]
       IN  /\ ret' = [ret EXCEPT ![th] =
                       [kind |-> "Text", from |-> t, text |-> GetText(seen), type |-> 0]]
           /\ tok' = [tok EXCEPT ![t].m_length = 0]
    /\ pc' = [pc EXCEPT ![th] = Idle]
    /\ UNCHANGED <<backing, lastOp, hist, overlapped>>

\* th: t.GetText (), the second member read and the return of the Text built
\* from the two values read.
GetTextSecond(th) ==
    /\ pc[th].op = "GetText"
    /\ LET t == pc[th].tok
           seen == [tok[t] EXCEPT ![pc[th].first] = pc[th].val]
       IN  ret' = [ret EXCEPT ![th] =
                    [kind |-> "Text", from |-> t, text |-> GetText(seen), type |-> 0]]
    /\ pc' = [pc EXCEPT ![th] = Idle]
    /\ UNCHANGED <<tok, backing, lastOp, hist, overlapped>>

\* th: t.GetType (), a single member read.
ReadType(th, t) ==
    /\ pc[th].op = "idle"
    /\ CallGetType(th, t)
    /\ UNCHANGED <<lastOp, hist>>

\* th: t.SetText (buffer, length), the assignment m_buffer = buffer.
SetTextFirst(th, t, buffer, length) ==
    /\ pc[th].op = "idle"
    /\ tok' = [tok EXCEPT ![t] = SetText_m_buffer(tok[t], buffer)]
    /\ pc' = [pc EXCEPT ![th] =
               [op |-> "SetText", tok |-> t, first |-> "m_buffer", val |-> length]]
    /\ overlapped' = (overlapped \/ CallInProgress(th, t))
    /\ UNCHANGED <<backing, ret, lastOp, hist>>

\* th: t.SetText (buffer, length), the assignment m_length = length.
SetTextSecond(th) ==
    /\ pc[th].op = "SetText"
    /\ tok' = [tok EXCEPT ![pc[th].tok] = SetText_m_length(tok[pc[th].tok], pc[th].val)]
    /\ pc' = [pc EXCEPT ![th] = Idle]
    /\ UNCHANGED <<backing, ret, lastOp, hist, overlapped>>

-----------------------------------------------------------------------------
(* SpecReaders: a constructed Token that nobody mutates, read by all threads *)

InitReaders ==
    \E buffer \in Starts, length \in Lengths, type \in Types :
        InitShared(buffer, length, type)

NextReaders ==
    \/ \E th \in Threads, m \in Members : GetTextFirst(th, Shared, m)
    \/ \E th \in Threads : GetTextSecond(th)
    \/ \E th \in Threads : ReadType(th, Shared)

SpecReaders == InitReaders /\ [][NextReaders]_vars

\* Every value a reader holds is the Token's current span or type.
C9_SameResults ==
    \A th \in Threads :
        /\ ret[th].kind = "Text" => ret[th].text = GetText(tok[ret[th].from])
        /\ ret[th].kind = "uInt2" => ret[th].type = GetType(tok[ret[th].from])

\* C9: on a constructed Token that is not mutated, GetText and GetType calls
\* of concurrent readers, interleaved in any way, leave the members
\* unchanged and all return the same span and the same type.
C9_GettersAreReadOnly == [] C9_SameResults /\ [][tok' = tok]_vars

\* One reader holds the span, one holds the type, and two readers are in the
\* middle of GetText calls that read the members in opposite orders.
C9_Witness ==
    /\ ret["t1"].kind = "Text"
    /\ ret["t2"].kind = "uInt2"
    /\ pc["t1"].op = "GetText" /\ pc["t1"].first = "m_length"
    /\ pc["t3"].op = "GetText" /\ pc["t3"].first = "m_buffer"
    /\ tok[Shared] = Token(MaxStart, MaxLength, MaxType)

-----------------------------------------------------------------------------
(* SpecRace: two writers and a reader, SetText and GetText unsynchronised *)

Writers == {"t1", "t2"}
Readers == {"t3"}

\* The spans supplied: the suffixes of the buffer, so that each start comes
\* with a length of its own.
RaceSpans == {<<start, Len(Buffer) - start>> : start \in Starts}

\* The span pairs a start with the length supplied with it.
Whole(text) == <<text.start, text.length>> \in RaceSpans

InitRace ==
    \E sp \in RaceSpans, type \in Types : InitShared(sp[1], sp[2], type)

NextRace ==
    \/ \E th \in Writers, sp \in RaceSpans : SetTextFirst(th, Shared, sp[1], sp[2])
    \/ \E th \in Writers : SetTextSecond(th)
    \/ \E th \in Readers, m \in Members : GetTextFirst(th, Shared, m)
    \/ \E th \in Readers : GetTextSecond(th)

SpecRace == InitRace /\ [][NextRace]_vars

\* No SetText call is in progress.
NoSetTextInProgress == \A w \in Threads : pc[w].op # "SetText"

\* C8 as stated: in every interleaving of SetText with GetText or with
\* another SetText, every span returned, and every span left stored once the
\* calls have returned, pairs a start with the length supplied with it.
C8_AtomicInEveryInterleaving ==
    /\ \A th \in Threads : ret[th].kind = "Text" => Whole(ret[th].text)
    /\ NoSetTextInProgress => Whole(GetText(tok[Shared]))

\* C8 amended: the same, as long as the caller has serialised the calls: no
\* SetText call on the Token has overlapped another call on it.
C8_AtomicWhenSerialized ==
    ~overlapped =>
        /\ \A th \in Threads : ret[th].kind = "Text" => Whole(ret[th].text)
        /\ NoSetTextInProgress => Whole(GetText(tok[Shared]))

\* No two calls have overlapped; the reader holds a span returned by
\* GetText, and a later SetText call has replaced the Token's span by
\* another one.
C8_Witness ==
    /\ ~overlapped
    /\ ret["t3"].kind = "Text"
    /\ \A th \in Threads : pc[th].op = "idle"
    /\ GetText(tok[Shared]) # ret["t3"].text

=============================================================================
